---- MODULE Spec2Model ----
(***************************************************************************)
(* Model of backdoor-framework.c: a single-threaded server that accepts    *)
(* one Unix-domain stream connection at a time, decodes one-byte commands  *)
(* (with command-specific argument bytes) from it, applies them to the      *)
(* table vars[256] and calls server_interrupt after every command except   *)
(* exit.  Clients are peers that connect, write commands one byte at a     *)
(* time, and close at any moment, also in the middle of a command.         *)
(***************************************************************************)
EXTENDS Integers, Sequences, FiniteSets, TLC

(* ---------------- bounds of the model ---------------- *)
\* total number of commands the clients start writing over the whole run
MaxCmds == 2
\* the same, in the specifications SpecFd and SpecLive
MaxCmdsFd == 1

\* the client processes; each opens one connection
Clients == {1, 2}

\* the commands a client chooses from: nop, exit, an unknown code, and
\* SetVariable of voltage (below, inside, above the default range), of
\* circuit_breaker (closed; a client that closes after the identifier byte
\* gets it opened), of min_voltage and of an unnamed variable
SampleCommands ==
    {<<0>>, <<1>>, <<7>>,
     <<2, 1, 200>>, <<2, 1, 240>>, <<2, 1, 250>>,
     <<2, 5, 1>>, <<2, 3, 250>>, <<2, 6, 1>>}
\* every byte value that occurs in them
SampleBytes == UNION {{cmd[k] : k \in 1..Len(cmd)} : cmd \in SampleCommands}

\* the command lines the client program is started with: a command word
\* alone, and SetVariable (by name or by number) with one or two argument
\* words, plus one line with too many words
SampleCmdWords ==
    {<<"n", "o", "p">>, <<"e", "x", "i", "t">>, <<"s", "e", "t">>,
     <<"0">>, <<"1">>, <<"2">>, <<"7">>, <<"0", "x", "2">>}
SampleSetWords == {<<"s", "e", "t">>, <<"2">>}
SampleVarWords ==
    {<<"v", "o", "l", "t", "a", "g", "e">>,
     <<"a", "m", "p", "e", "r", "a", "g", "e">>,
     <<"m", "i", "n", "_", "v", "o", "l", "t", "a", "g", "e">>,
     <<"m", "a", "x", "_", "v", "o", "l", "t", "a", "g", "e">>,
     <<"c", "i", "r", "c", "u", "i", "t", "_", "b", "r", "e", "a", "k", "e", "r">>,
     <<"1">>, <<"2">>, <<"3">>, <<"4">>, <<"5">>, <<"6">>}
SampleValWords == {<<"0">>, <<"2", "5", "0">>, <<"0", "x", "1", "0">>, <<"0", "1", "0">>}
SampleArgv ==
    {<<w>> : w \in SampleCmdWords}
    \cup {<<w, n>> : w \in SampleSetWords, n \in SampleVarWords}
    \cup {<<w, n, v>> : w \in SampleSetWords, n \in SampleVarWords, v \in SampleValWords}
    \cup {<<<<"2">>, <<"1">>, <<"0">>, <<"0">>>>}

None == 0

(* ---------------- enum ClientCommand / enum VariableName ---------------- *)
CMD_NOP == 0
CMD_EXIT == 1
CMD_SET_VARIABLE == 2

VAR_UNUSED == 0
VAR_VOLTAGE == 1
VAR_AMPERAGE == 2
VAR_MIN_VOLTAGE == 3
VAR_MAX_VOLTAGE == 4
VAR_CIRCUIT_BREAKER == 5
VAR_LAST == 6

\* listen(sock, 5)
Backlog == 5

VarIds == 0..255

\* static uint8_t vars[256] = {0, 240, 0, 235, 245, 1};
DefaultVars ==
    [i \in VarIds |->
        CASE i = VAR_VOLTAGE         -> 240
          [] i = VAR_MIN_VOLTAGE     -> 235
          [] i = VAR_MAX_VOLTAGE     -> 245
          [] i = VAR_CIRCUIT_BREAKER -> 1
          [] OTHER                   -> 0]

\* trip with the upper bound of the range forgotten
trip_below_only(v) ==
    v[VAR_CIRCUIT_BREAKER] # 0 /\ v[VAR_VOLTAGE] < v[VAR_MIN_VOLTAGE]

\* trip with both comparisons reversed
trip_reversed(v) ==
    v[VAR_CIRCUIT_BREAKER] # 0 /\
    (v[VAR_VOLTAGE] > v[VAR_MIN_VOLTAGE] \/ v[VAR_VOLTAGE] < v[VAR_MAX_VOLTAGE])

\* the condition computed into `trip`
trip(v) ==
    v[VAR_CIRCUIT_BREAKER] # 0 /\
    (v[VAR_VOLTAGE] < v[VAR_MIN_VOLTAGE] \/ v[VAR_VOLTAGE] > v[VAR_MAX_VOLTAGE])

\* a policy that also closes the breaker again when the voltage is in range
trip_breaker_reclose(v) ==
    IF trip(v) THEN [v EXCEPT ![VAR_CIRCUIT_BREAKER] = 0]
    ELSE IF v[VAR_VOLTAGE] >= v[VAR_MIN_VOLTAGE] /\ v[VAR_VOLTAGE] <= v[VAR_MAX_VOLTAGE]
         THEN [v EXCEPT ![VAR_CIRCUIT_BREAKER] = 1]
         ELSE v

\* trip_breaker_based_on_voltage: the table after the call
trip_breaker_based_on_voltage(v) ==
    IF trip(v) THEN [v EXCEPT ![VAR_CIRCUIT_BREAKER] = 0] ELSE v

\* variable_name(name, use_default): the name of a reserved variable; for
\* any other, NULL without use_default and the text "var[<name>]" with it
NULL == "NULL"
variable_name(name, use_default) ==
    CASE name = VAR_UNUSED          -> "unused"
      [] name = VAR_VOLTAGE         -> "voltage"
      [] name = VAR_AMPERAGE        -> "amperage"
      [] name = VAR_MIN_VOLTAGE     -> "min_voltage"
      [] name = VAR_MAX_VOLTAGE     -> "max_voltage"
      [] name = VAR_CIRCUIT_BREAKER -> "circuit_breaker"
      [] OTHER -> IF use_default = 0 THEN NULL ELSE "var[" \o ToString(name) \o "]"

\* the loop of show_variables: i runs through 0..255 in ascending order and
\* a line <<identifier, name, value>> is printed for each i in `shown`;
\* rest[todo] are the lines for the identifiers still to come
show_lines(v, shown) ==
    LET rest[todo \in SUBSET VarIds] ==
            IF todo = {} THEN <<>>
            ELSE LET i == CHOOSE k \in todo : \A j \in todo : k <= j
                 IN <<<<i, variable_name(i, 1), v[i]>>>> \o rest[todo \ {i}]
    IN rest[shown]

\* a reserved variable is listed only when it is not 0
show_variables_nonzero(v) == show_lines(v, {i \in VarIds : v[i] # 0})

\* the identifiers for which variable_name(i, 0) is not NULL
Named == {i \in VarIds : variable_name(i, 0) # NULL}

\* show_variables: the listing printed under "variables:"
show_variables(v) ==
    show_lines(v, {i \in VarIds : i \in Named \/ v[i] # 0})

\* an interrupt that shows the variables before it runs the policy
interrupt_lines_show_first(v) ==
    <<<<"server interrupt">>, <<"variables:", show_variables(v)>>>>
    \o (IF trip(v) THEN <<<<"*** PROTECTED: circuit breaker tripped">>>> ELSE <<>>)

\* server_interrupt: the lines it prints for the table v
interrupt_lines(v) ==
    <<<<"server interrupt">>>>
    \o (IF trip(v) THEN <<<<"*** PROTECTED: circuit breaker tripped">>>> ELSE <<>>)
    \o <<<<"variables:", show_variables(trip_breaker_based_on_voltage(v))>>>>

Min(a, b) == IF a < b THEN a ELSE b

\* read(client, name_val, 2) on a stream socket holding the bytes b: the
\* number of bytes it returns (0 only at end of stream)
read_count(b) == Min(2, Len(b))

\* name_val without the two assignments before the read: bytes the read does
\* not fill keep what the stack held, here 255
name_val_unfilled(b) ==
    <<IF read_count(b) >= 1 THEN b[1] ELSE 255,
      IF read_count(b) >= 2 THEN b[2] ELSE 255>>

\* name_val after "name_val[0] = VAR_UNUSED; name_val[1] = 0; read(.., 2)"
name_val(b) ==
    <<IF read_count(b) >= 1 THEN b[1] ELSE VAR_UNUSED,
      IF read_count(b) >= 2 THEN b[2] ELSE 0>>

\* the store with identifier and value exchanged
set_variable_swapped(v, nv) == [v EXCEPT ![nv[2]] = nv[1]]

\* vars[name_val[0]] = name_val[1]
set_variable(v, nv) == [v EXCEPT ![nv[1]] = nv[2]]

(* ---------------- the arity table of the wire format ---------------- *)
\* argument bytes that follow a command code (header comment: "The number
\* of arguments is intrinsic to the command")
Arity(code) == IF code = CMD_SET_VARIABLE THEN 2 ELSE 0

\* reference framing: argument bytes still owed after the bytes bs, when
\* `owed` were owed before them
RECURSIVE Owed(_, _)
Owed(owed, bs) ==
    IF bs = <<>> THEN owed
    ELSE Owed(IF owed > 0 THEN owed - 1 ELSE Arity(Head(bs)), Tail(bs))

NoCmd == [code |-> -1, nargs |-> 0, name |-> 0, val |-> 0]

(* ---------------- the client program ---------------- *)
\* command-line words, as sequences of characters
W_nop == <<"n", "o", "p">>
W_exit == <<"e", "x", "i", "t">>
W_set == <<"s", "e", "t">>
W_voltage == <<"v", "o", "l", "t", "a", "g", "e">>
W_amperage == <<"a", "m", "p", "e", "r", "a", "g", "e">>
W_min_voltage == <<"m", "i", "n", "_", "v", "o", "l", "t", "a", "g", "e">>
W_max_voltage == <<"m", "a", "x", "_", "v", "o", "l", "t", "a", "g", "e">>
W_circuit_breaker == <<"c", "i", "r", "c", "u", "i", "t", "_", "b", "r", "e", "a", "k", "e", "r">>

\* the value of a character as a digit, 99 for any other character
digit(ch) ==
    CASE ch = "0" -> 0 [] ch = "1" -> 1 [] ch = "2" -> 2 [] ch = "3" -> 3
      [] ch = "4" -> 4 [] ch = "5" -> 5 [] ch = "6" -> 6 [] ch = "7" -> 7
      [] ch = "8" -> 8 [] ch = "9" -> 9
      [] ch \in {"a", "A"} -> 10 [] ch \in {"b", "B"} -> 11 [] ch \in {"c", "C"} -> 12
      [] ch \in {"d", "D"} -> 13 [] ch \in {"e", "E"} -> 14 [] ch \in {"f", "F"} -> 15
      [] OTHER -> 99

\* the digits of w from position k on, in the given base, added to acc; the
\* conversion ends at the first character that is no digit of the base
RECURSIVE digits(_, _, _, _)
digits(w, k, base, acc) ==
    IF k > Len(w) \/ digit(w[k]) >= base THEN acc
    ELSE digits(w, k + 1, base, acc * base + digit(w[k]))

\* strtoul(w, NULL, 0) for a word without leading blanks or sign, short
\* enough not to overflow: "0x" and a hexadecimal digit start a hexadecimal
\* number, "0" an octal one, any other digit a decimal one; a word that
\* starts with no digit gives 0
strtoul(w) ==
    IF Len(w) >= 3 /\ w[1] = "0" /\ w[2] \in {"x", "X"} /\ digit(w[3]) < 16
    THEN digits(w, 3, 16, 0)
    ELSE IF Len(w) >= 1 /\ w[1] = "0" THEN digits(w, 1, 8, 0)
    ELSE digits(w, 1, 10, 0)

\* the assignment to the uint8_t command[0]
client_command(w) ==
    IF w = W_nop THEN CMD_NOP
    ELSE IF w = W_exit THEN CMD_EXIT
    ELSE IF w = W_set THEN CMD_SET_VARIABLE
    ELSE strtoul(w) % 256

\* an argument taken as a number also when it is a variable name
client_arg_number(command0, w) == strtoul(w) % 256

\* the assignment to the uint8_t command[i-1] for an argument word
client_arg(command0, w) ==
    IF command0 = CMD_SET_VARIABLE
    THEN IF w = W_voltage THEN VAR_VOLTAGE
         ELSE IF w = W_amperage THEN VAR_AMPERAGE
         ELSE IF w = W_min_voltage THEN VAR_MIN_VOLTAGE
         ELSE IF w = W_max_voltage THEN VAR_MAX_VOLTAGE
         ELSE IF w = W_circuit_breaker THEN VAR_CIRCUIT_BREAKER
         ELSE strtoul(w) % 256
    ELSE strtoul(w) % 256

MAX_BYTES_IN_COMMAND == 3

\* the bytes client() writes for the words a = argv[1..argc-1]; none when it
\* exits on its check of the command line
client_bytes(a) ==
    IF Len(a) < 1 \/ Len(a) > MAX_BYTES_IN_COMMAND THEN <<>>
    ELSE [i \in 1..Len(a) |->
             IF i = 1 THEN client_command(a[1])
             ELSE client_arg(client_command(a[1]), a[i])]

\* the numbers of the command names and of the variable names, as words
\* ("The arguments are the integer commands and command arguments. Command
\* names and variable names are also accepted.")
NumericWord(i, w) ==
    IF i = 1
    THEN CASE w = W_nop  -> <<"0">>
           [] w = W_exit -> <<"1">>
           [] w = W_set  -> <<"2">>
           [] OTHER      -> w
    ELSE CASE w = W_voltage         -> <<"1">>
           [] w = W_amperage        -> <<"2">>
           [] w = W_min_voltage     -> <<"3">>
           [] w = W_max_voltage     -> <<"4">>
           [] w = W_circuit_breaker -> <<"5">>
           [] OTHER                 -> w

\* a command line with every name replaced by its number
Numeric(a) == [i \in 1..Len(a) |-> NumericWord(i, a[i])]

(* ---------------- descriptors ---------------- *)
\* the descriptors a process may inherit open: stdin, stdout, stderr
StdFds == {0, 1, 2}

\* a descriptor allocation that numbers connections from 0, whatever is open
lowest_fd_from_zero(open) == 0

\* socket() and accept() return the lowest-numbered descriptor that is not
\* open in the process
lowest_fd(open) ==
    CHOOSE n \in 0..Cardinality(open) : n \notin open /\ \A m \in 0..(n - 1) : m \in open

VARIABLES
    vars,        \* the variable table
    pc,          \* server position: start, accept, read, dispatch, interrupt, close, exited
    command,     \* local `command` of process_client_commands
    cur,         \* the connection being processed (local `client` of server), or None
    exitcode,    \* exit status of the server process, -1 while it runs
    sockfile,    \* TRUE while SERVER_ADDR exists in the file system
    backlog,     \* connections waiting in the listen queue, oldest first
    sstate,      \* per connection, server side: none, queued, accepted, done
    buf,         \* per connection: bytes written and not yet read by the server
    cstate,      \* per client: idle, open, closed
    pending,     \* per client: bytes of the command it is writing, not yet written
    started,     \* commands the clients have started writing
    argv,        \* per client: the words the client program was started with
                 \* (argv[1..argc-1]); none for a peer that is another program
    sent,        \* per client: the bytes client() has written
    \* history of the run, read by the properties only
    pre,         \* the table when the last command byte was read
    lastCmd,     \* last command dispatched on the current connection
    lastSet,     \* id -> value of the last SetVariable stored to it
    fullSets,    \* every command dispatched so far was a whole, well-framed SetVariable
    nApplied,    \* commands dispatched other than exit
    nInterrupts, \* calls of server_interrupt
    nShown,      \* calls of show_variables
    atAccept,    \* <<nApplied, nInterrupts, nShown>> when the current connection was
                 \* accepted
    stdout,      \* lines written to stdout since the last command byte was read
                 \* or the connection was accepted
    nread,       \* per connection: bytes the server has read from it
    argsOwed,    \* argument bytes the arity table still owes on the current connection
    misframed,   \* an owed argument byte was dispatched as a command byte
    \* the descriptor table of the server process
    fds,         \* descriptors that are open
    server,      \* local `server` of server(): the listening socket, -1 before it exists
    client       \* local `client` of server(): the value accept returned last, -1 before

client_vars == <<cstate, pending, started, argv, sent>>
hist_vars == <<pre, lastCmd, lastSet, fullSets, nApplied, nInterrupts, nShown, nread,
               argsOwed, misframed, stdout, atAccept>>
srv_vars == <<vars, pc, command, cur, exitcode, sockfile>>
fd_vars == <<fds, server, client>>
vars_all == <<srv_vars, backlog, sstate, buf, client_vars, hist_vars, fd_vars>>

\* the state at the call of main, but for the descriptors that are open and
\* the command lines of the clients
InitRest ==
    /\ sent = [c \in Clients |-> <<>>]
    /\ server = -1
    /\ client = -1
    /\ vars = DefaultVars
    /\ pc = "start"
    /\ command = CMD_NOP
    /\ cur = None
    /\ exitcode = -1
    /\ sockfile = FALSE
    /\ backlog = <<>>
    /\ sstate = [c \in Clients |-> "none"]
    /\ buf = [c \in Clients |-> <<>>]
    /\ cstate = [c \in Clients |-> "idle"]
    /\ pending = [c \in Clients |-> <<>>]
    /\ started = 0
    /\ pre = DefaultVars
    /\ lastCmd = NoCmd
    /\ lastSet = <<>>
    /\ fullSets = TRUE
    /\ nApplied = 0
    /\ nInterrupts = 0
    /\ nShown = 0
    /\ stdout = <<>>
    /\ atAccept = <<0, 0, 0>>
    /\ nread = [c \in Clients |-> 0]
    /\ argsOwed = 0
    /\ misframed = FALSE

\* the server started with any of the standard descriptors open; the
\* clients are peers that write bytes of their own choice
InitAnyFds ==
    /\ fds \in SUBSET StdFds
    /\ argv = [c \in Clients |-> <<>>]
    /\ InitRest

\* the server started the usual way, from a shell: stdin, stdout and stderr
\* are open
Init == InitAnyFds /\ fds = StdFds

\* the clients are runs of the client program: the first is given a sample
\* command line, every other one the same line with each command name and
\* variable name replaced by its number
InitClient ==
    /\ fds = StdFds
    /\ argv \in {[c \in Clients |-> IF c = 1 THEN a ELSE Numeric(a)] : a \in SampleArgv}
    /\ InitRest

(* ---------------- clients ---------------- *)
\* connect(): succeeds while the server listens; the connection waits in the
\* listen queue until it is accepted.  The clients are interchangeable, so
\* they are numbered in the order in which they connect.
Connect(c) ==
    /\ cstate[c] = "idle"
    /\ \A d \in Clients : d < c => cstate[d] # "idle"
    /\ pc \notin {"start", "exited"}
    /\ Len(backlog) < Backlog
    /\ cstate' = [cstate EXCEPT ![c] = "open"]
    /\ sstate' = [sstate EXCEPT ![c] = "queued"]
    /\ backlog' = Append(backlog, c)
    /\ UNCHANGED <<srv_vars, hist_vars, buf, pending, started, argv, sent>>
    /\ UNCHANGED fd_vars

\* write() of one byte on an open connection: the next byte of the command
\* being written, or the first byte of a new command
Write(c, b) ==
    /\ cstate[c] = "open"
    /\ sstate[c] \in {"queued", "accepted"}
    /\ pc # "exited"
    /\ IF pending[c] = <<>>
       THEN /\ started < MaxCmds
            /\ started' = started + 1
            /\ \E cmd \in SampleCommands :
                  /\ b = Head(cmd)
                  /\ pending' = [pending EXCEPT ![c] = Tail(cmd)]
       ELSE /\ b = Head(pending[c])
            /\ pending' = [pending EXCEPT ![c] = Tail(@)]
            /\ started' = started
    /\ buf' = [buf EXCEPT ![c] = Append(@, b)]
    /\ UNCHANGED <<srv_vars, hist_vars, backlog, cstate, sstate, argv, sent>>
    /\ UNCHANGED fd_vars

\* the peer closes its end (close() or process exit), possibly mid-command
ClientClose(c) ==
    /\ cstate[c] = "open"
    /\ cstate' = [cstate EXCEPT ![c] = "closed"]
    /\ UNCHANGED <<srv_vars, hist_vars, backlog, sstate, buf, pending, started, argv, sent>>
    /\ UNCHANGED fd_vars

\* client(): check the command line, compute the command bytes, connect,
\* write them all with one write; main then returns and the process exits,
\* which closes the connection.  It exits with nothing sent when the check
\* of the command line or the connect fails (no server is listening).
ClientMain(c) ==
    /\ cstate[c] = "idle"
    /\ argv[c] # <<>>
    /\ Len(backlog) < Backlog
    /\ cstate' = [cstate EXCEPT ![c] = "closed"]
    /\ IF client_bytes(argv[c]) # <<>> /\ pc \notin {"start", "exited"}
       THEN /\ sstate' = [sstate EXCEPT ![c] = "queued"]
            /\ backlog' = Append(backlog, c)
            /\ buf' = [buf EXCEPT ![c] = client_bytes(argv[c])]
            /\ sent' = [sent EXCEPT ![c] = client_bytes(argv[c])]
       ELSE UNCHANGED <<sstate, backlog, buf, sent>>
    /\ UNCHANGED <<srv_vars, hist_vars, fd_vars, pending, started, argv>>

(* ---------------- server ---------------- *)
\* start_server_socket: socket, bind, listen all succeed
StartServer ==
    /\ pc = "start"
    /\ pc' = "accept"
    /\ sockfile' = TRUE
    /\ server' = lowest_fd(fds)
    /\ fds' = fds \cup {lowest_fd(fds)}
    /\ client' = client
    /\ UNCHANGED <<vars, command, cur, exitcode>>
    /\ UNCHANGED <<backlog, sstate, buf, client_vars, hist_vars>>

\* start_server_socket: socket, bind or listen fails: exit(1)
StartServerFail ==
    /\ pc = "start"
    /\ pc' = "exited"
    /\ exitcode' = 1
    /\ UNCHANGED <<vars, command, cur, sockfile>>
    /\ UNCHANGED <<backlog, sstate, buf, client_vars, hist_vars>>
    /\ UNCHANGED fd_vars

\* an accept that gives each connection a table of its own, at the defaults
Accept_NewTable ==
    /\ pc = "accept"
    /\ backlog # <<>>
    /\ cur' = Head(backlog)
    /\ backlog' = Tail(backlog)
    /\ sstate' = [sstate EXCEPT ![Head(backlog)] = "accepted"]
    /\ client' = lowest_fd(fds)
    /\ fds' = fds \cup {lowest_fd(fds)}
    /\ server' = server
    /\ IF lowest_fd(fds) # 0
       THEN pc' = "read" /\ exitcode' = exitcode
       ELSE pc' = "exited" /\ exitcode' = 0
    /\ command' = CMD_NOP
    /\ pre' = vars
    /\ lastCmd' = NoCmd
    /\ argsOwed' = 0
    /\ misframed' = FALSE
    /\ vars' = DefaultVars
    /\ sockfile' = sockfile
    /\ UNCHANGED <<buf, client_vars>>
    /\ UNCHANGED <<lastSet, fullSets, nApplied, nInterrupts, nShown, nread>>
    /\ stdout' = <<>>
    /\ atAccept' = <<nApplied, nInterrupts, nShown>>

\* accept_client_connection returns a descriptor for the oldest queued
\* connection; "while ((client = ...))" goes on with process_client_commands
\* when it is not 0, and otherwise leaves the loop: server returns and main
\* returns 0
Accept ==
    /\ pc = "accept"
    /\ backlog # <<>>
    /\ cur' = Head(backlog)
    /\ backlog' = Tail(backlog)
    /\ sstate' = [sstate EXCEPT ![Head(backlog)] = "accepted"]
    /\ client' = lowest_fd(fds)
    /\ fds' = fds \cup {lowest_fd(fds)}
    /\ server' = server
    /\ IF lowest_fd(fds) # 0
       THEN pc' = "read" /\ exitcode' = exitcode
       ELSE pc' = "exited" /\ exitcode' = 0
    /\ command' = CMD_NOP
    /\ pre' = vars
    /\ lastCmd' = NoCmd
    /\ argsOwed' = 0
    /\ misframed' = FALSE
    /\ UNCHANGED <<vars, sockfile>>
    /\ UNCHANGED <<buf, client_vars>>
    /\ UNCHANGED <<lastSet, fullSets, nApplied, nInterrupts, nShown, nread>>
    /\ stdout' = <<>>
    /\ atAccept' = <<nApplied, nInterrupts, nShown>>

\* accept() fails: exit(1)
AcceptFail ==
    /\ pc = "accept"
    /\ pc' = "exited"
    /\ exitcode' = 1
    /\ UNCHANGED <<vars, command, cur, sockfile>>
    /\ UNCHANGED <<backlog, sstate, buf, client_vars, hist_vars>>
    /\ UNCHANGED fd_vars

\* read(client, &command, 1) returns one byte
ReadCommand ==
    /\ pc = "read"
    /\ buf[cur] # <<>>
    /\ command' = Head(buf[cur])
    /\ buf' = [buf EXCEPT ![cur] = Tail(@)]
    /\ pc' = "dispatch"
    /\ pre' = vars
    /\ nread' = [nread EXCEPT ![cur] = @ + 1]
    /\ misframed' = (misframed \/ argsOwed > 0)
    /\ argsOwed' = Owed(argsOwed, <<Head(buf[cur])>>)
    /\ UNCHANGED <<vars, cur, exitcode, sockfile>>
    /\ UNCHANGED <<backlog, sstate, client_vars>>
    /\ UNCHANGED <<lastCmd, lastSet, fullSets, nApplied, nInterrupts, nShown>>
    /\ UNCHANGED fd_vars
    /\ stdout' = <<>>
    /\ atAccept' = atAccept

\* an end of stream that is taken for a command and gets an interrupt
ReadEOF_WithInterrupt ==
    /\ pc = "read"
    /\ buf[cur] = <<>>
    /\ cstate[cur] = "closed"
    /\ pc' = "close"
    /\ vars' = trip_breaker_based_on_voltage(vars)
    /\ nInterrupts' = nInterrupts + 1
    /\ nShown' = nShown + 1
    /\ stdout' = stdout \o interrupt_lines(vars)
    /\ UNCHANGED <<command, cur, exitcode, sockfile>>
    /\ UNCHANGED <<backlog, sstate, buf, client_vars>>
    /\ UNCHANGED <<pre, lastCmd, lastSet, fullSets, nApplied, nread, argsOwed, misframed,
                   atAccept>>
    /\ UNCHANGED fd_vars

\* a loop that takes the end of the stream for "no byte yet" and reads again
ReadEOF_Retry ==
    /\ pc = "read"
    /\ buf[cur] = <<>>
    /\ cstate[cur] = "closed"
    /\ pc' = "read"
    /\ UNCHANGED <<vars, command, cur, exitcode, sockfile>>
    /\ UNCHANGED <<backlog, sstate, buf, client_vars, hist_vars>>
    /\ UNCHANGED fd_vars

\* a read that also returns when the peer is open and has sent nothing yet
ReadEOF_NoData ==
    /\ pc = "read"
    /\ buf[cur] = <<>>
    /\ pc' = "close"
    /\ UNCHANGED <<vars, command, cur, exitcode, sockfile>>
    /\ UNCHANGED <<backlog, sstate, buf, client_vars, hist_vars>>
    /\ UNCHANGED fd_vars

\* read(client, &command, 1) <= 0: end of stream, return to server().  The
\* server never writes to the connection and installs no signal handler, so
\* the read blocks until a byte arrives or the peer has closed.
ReadEOF ==
    /\ pc = "read"
    /\ buf[cur] = <<>>
    /\ cstate[cur] = "closed"
    /\ pc' = "close"
    /\ UNCHANGED <<vars, command, cur, exitcode, sockfile>>
    /\ UNCHANGED <<backlog, sstate, buf, client_vars, hist_vars>>
    /\ UNCHANGED fd_vars

\* case CMD_NOP
CmdNop ==
    /\ pc = "dispatch"
    /\ command = CMD_NOP
    /\ pc' = "interrupt"
    /\ lastCmd' = [code |-> command, nargs |-> 0, name |-> 0, val |-> 0]
    /\ fullSets' = FALSE
    /\ nApplied' = nApplied + 1
    /\ UNCHANGED <<vars, command, cur, exitcode, sockfile>>
    /\ UNCHANGED <<backlog, sstate, buf, client_vars>>
    /\ UNCHANGED <<pre, lastSet, nInterrupts, nShown, nread, argsOwed, misframed>>
    /\ UNCHANGED fd_vars
    /\ stdout' = Append(stdout, <<"command: nop">>)
    /\ atAccept' = atAccept

\* exit(0) with the unlink forgotten
CmdExit_NoUnlink ==
    /\ pc = "dispatch"
    /\ command = CMD_EXIT
    /\ exitcode' = 0
    /\ pc' = "exited"
    /\ lastCmd' = [code |-> command, nargs |-> 0, name |-> 0, val |-> 0]
    /\ fullSets' = FALSE
    /\ UNCHANGED <<vars, command, cur, sockfile>>
    /\ UNCHANGED <<backlog, sstate, buf, client_vars>>
    /\ UNCHANGED <<pre, lastSet, nApplied, nInterrupts, nShown, nread, argsOwed,
                   misframed>>
    /\ UNCHANGED fd_vars
    /\ stdout' = Append(stdout, <<"command: exit">>)
    /\ atAccept' = atAccept

\* case CMD_EXIT: unlink(SERVER_ADDR); exit(0)
CmdExit ==
    /\ pc = "dispatch"
    /\ command = CMD_EXIT
    /\ sockfile' = FALSE
    /\ exitcode' = 0
    /\ pc' = "exited"
    /\ lastCmd' = [code |-> command, nargs |-> 0, name |-> 0, val |-> 0]
    /\ fullSets' = FALSE
    /\ UNCHANGED <<vars, command, cur>>
    /\ UNCHANGED <<backlog, sstate, buf, client_vars>>
    /\ UNCHANGED <<pre, lastSet, nApplied, nInterrupts, nShown, nread, argsOwed,
                   misframed>>
    /\ UNCHANGED fd_vars
    /\ stdout' = Append(stdout, <<"command: exit">>)
    /\ atAccept' = atAccept

\* case CMD_SET_VARIABLE: the argument read returns as soon as one byte is
\* there, or 0 at end of stream; its result is not looked at
CmdSetVariable ==
    /\ pc = "dispatch"
    /\ command = CMD_SET_VARIABLE
    /\ buf[cur] # <<>> \/ cstate[cur] = "closed"
    /\ LET n  == read_count(buf[cur])
           nv == name_val(buf[cur])
       IN /\ buf' = [buf EXCEPT ![cur] = SubSeq(@, n + 1, Len(@))]
          /\ vars' = set_variable(vars, nv)
          /\ lastCmd' = [code |-> command, nargs |-> n, name |-> nv[1], val |-> nv[2]]
          /\ lastSet' = (nv[1] :> nv[2]) @@ lastSet
          /\ fullSets' = (fullSets /\ n = 2 /\ ~misframed)
          /\ nread' = [nread EXCEPT ![cur] = @ + n]
          /\ argsOwed' = Owed(argsOwed, SubSeq(buf[cur], 1, n))
    /\ pc' = "interrupt"
    /\ nApplied' = nApplied + 1
    /\ UNCHANGED <<command, cur, exitcode, sockfile>>
    /\ UNCHANGED <<backlog, sstate, client_vars>>
    /\ UNCHANGED <<pre, nInterrupts, nShown, misframed>>
    /\ UNCHANGED fd_vars
    /\ stdout' = Append(stdout, <<"command: set variable", name_val(buf[cur])[1], name_val(buf[cur])[2]>>)
    /\ atAccept' = atAccept

\* default case leaving the loop body with `continue`: no interrupt
CmdUnknown_NoInterrupt ==
    /\ pc = "dispatch"
    /\ command \notin {CMD_NOP, CMD_EXIT, CMD_SET_VARIABLE}
    /\ pc' = "read"
    /\ command' = CMD_NOP
    /\ lastCmd' = [code |-> command, nargs |-> 0, name |-> 0, val |-> 0]
    /\ fullSets' = FALSE
    /\ nApplied' = nApplied + 1
    /\ UNCHANGED <<vars, cur, exitcode, sockfile>>
    /\ UNCHANGED <<backlog, sstate, buf, client_vars>>
    /\ UNCHANGED <<pre, lastSet, nInterrupts, nShown, nread, argsOwed, misframed>>
    /\ UNCHANGED fd_vars
    /\ stdout' = Append(stdout, <<"unknown command", command>>)
    /\ atAccept' = atAccept

\* default case that reads one argument byte when one is there
CmdUnknown_EatsArg ==
    /\ pc = "dispatch"
    /\ command \notin {CMD_NOP, CMD_EXIT, CMD_SET_VARIABLE}
    /\ pc' = "interrupt"
    /\ buf' = [buf EXCEPT ![cur] = SubSeq(@, Min(1, Len(@)) + 1, Len(@))]
    /\ nread' = [nread EXCEPT ![cur] = @ + Min(1, Len(buf[cur]))]
    /\ lastCmd' = [code |-> command, nargs |-> 0, name |-> 0, val |-> 0]
    /\ fullSets' = FALSE
    /\ nApplied' = nApplied + 1
    /\ UNCHANGED <<vars, command, cur, exitcode, sockfile>>
    /\ UNCHANGED <<backlog, sstate, client_vars>>
    /\ UNCHANGED <<pre, lastSet, nInterrupts, nShown, argsOwed, misframed>>
    /\ UNCHANGED fd_vars
    /\ stdout' = Append(stdout, <<"unknown command", command>>)
    /\ atAccept' = atAccept

\* default: unknown command
CmdUnknown ==
    /\ pc = "dispatch"
    /\ command \notin {CMD_NOP, CMD_EXIT, CMD_SET_VARIABLE}
    /\ pc' = "interrupt"
    /\ lastCmd' = [code |-> command, nargs |-> 0, name |-> 0, val |-> 0]
    /\ fullSets' = FALSE
    /\ nApplied' = nApplied + 1
    /\ UNCHANGED <<vars, command, cur, exitcode, sockfile>>
    /\ UNCHANGED <<backlog, sstate, buf, client_vars>>
    /\ UNCHANGED <<pre, lastSet, nInterrupts, nShown, nread, argsOwed, misframed>>
    /\ UNCHANGED fd_vars
    /\ stdout' = Append(stdout, <<"unknown command", command>>)
    /\ atAccept' = atAccept

\* server_interrupt: trip_breaker_based_on_voltage, show_variables (which
\* prints and changes nothing); then back to the head of the loop, where
\* command = CMD_NOP
server_interrupt ==
    /\ pc = "interrupt"
    /\ vars' = trip_breaker_based_on_voltage(vars)
    /\ nInterrupts' = nInterrupts + 1
    /\ nShown' = nShown + 1
    /\ pc' = "read"
    /\ command' = CMD_NOP
    /\ UNCHANGED <<cur, exitcode, sockfile>>
    /\ UNCHANGED <<backlog, sstate, buf, client_vars>>
    /\ UNCHANGED <<pre, lastCmd, lastSet, fullSets, nApplied, nread, argsOwed, misframed>>
    /\ UNCHANGED fd_vars
    /\ stdout' = stdout \o interrupt_lines(vars)
    /\ atAccept' = atAccept

\* close(client) in server(), then the next accept
Close ==
    /\ pc = "close"
    /\ sstate' = [sstate EXCEPT ![cur] = "done"]
    /\ cur' = None
    /\ pc' = "accept"
    /\ fds' = fds \ {client}
    /\ UNCHANGED <<server, client>>
    /\ UNCHANGED <<vars, command, exitcode, sockfile>>
    /\ UNCHANGED <<backlog, buf, client_vars, hist_vars>>

Next ==
    \/ \E c \in Clients : Connect(c)
    \/ \E c \in Clients, b \in SampleBytes : Write(c, b)
    \/ \E c \in Clients : ClientClose(c)
    \/ StartServer
    \/ StartServerFail
    \/ Accept
    \/ AcceptFail
    \/ ReadCommand
    \/ ReadEOF
    \/ CmdNop
    \/ CmdExit
    \/ CmdSetVariable
    \/ CmdUnknown
    \/ server_interrupt
    \/ Close

Spec == Init /\ [][Next]_vars_all

\* the server with runs of the client program as its peers
NextClient ==
    \/ \E c \in Clients : ClientMain(c)
    \/ StartServer
    \/ StartServerFail
    \/ Accept
    \/ AcceptFail
    \/ ReadCommand
    \/ ReadEOF
    \/ CmdNop
    \/ CmdExit
    \/ CmdSetVariable
    \/ CmdUnknown
    \/ server_interrupt
    \/ Close
SpecClient == InitClient /\ [][NextClient]_vars_all

\* the same server started with any of stdin, stdout, stderr closed, and
\* clients that start at most MaxCmdsFd commands
NextFd ==
    \/ \E c \in Clients : Connect(c)
    \/ \E c \in Clients, b \in SampleBytes : Write(c, b) /\ started' <= MaxCmdsFd
    \/ \E c \in Clients : ClientClose(c)
    \/ StartServer
    \/ StartServerFail
    \/ Accept
    \/ AcceptFail
    \/ ReadCommand
    \/ ReadEOF
    \/ CmdNop
    \/ CmdExit
    \/ CmdSetVariable
    \/ CmdUnknown
    \/ server_interrupt
    \/ Close
SpecFd == InitAnyFds /\ [][NextFd]_vars_all

\* the steps the server process takes when no call fails
ServerStep ==
    \/ StartServer
    \/ Accept
    \/ ReadCommand
    \/ ReadEOF
    \/ CmdNop
    \/ CmdExit
    \/ CmdSetVariable
    \/ CmdUnknown
    \/ server_interrupt
    \/ Close

\* the server process is scheduled as long as it can take a step, and every
\* client that has connected closes its connection at some time
Fairness ==
    /\ WF_vars_all(ServerStep)
    /\ \A c \in Clients : WF_vars_all(ClientClose(c))
\* with clients that start at most MaxCmdsFd commands
SpecLive == Init /\ [][NextFd]_vars_all /\ Fairness

(* ======================= properties ======================= *)
\* the server is between command cycles: every dispatched command has had
\* its interrupt
AtRest == pc \notin {"dispatch", "interrupt"}

\* a whole SetVariable(name, val): both argument bytes read
SetCmd(name, val) ==
    [code |-> CMD_SET_VARIABLE, nargs |-> 2, name |-> name, val |-> val]

\* the step taken is the call of server_interrupt
InterruptStep == pc = "interrupt" /\ pc' # "interrupt"

\* C1: the interrupt opens the breaker (sets circuit_breaker to 0) exactly
\* when it is closed and the voltage is below min_voltage or above
\* max_voltage; if so it changes no other variable, if not it changes none.
\* From the default table SetVariable(voltage, 200) leaves the breaker 0 and
\* SetVariable(voltage, 240) leaves it as it was.
C1_TripIffOutOfRange ==
    [][InterruptStep =>
        LET closed == vars[VAR_CIRCUIT_BREAKER] # 0
            out    == vars[VAR_VOLTAGE] < vars[VAR_MIN_VOLTAGE]
                      \/ vars[VAR_VOLTAGE] > vars[VAR_MAX_VOLTAGE]
        IN /\ (closed /\ out) => vars'[VAR_CIRCUIT_BREAKER] = 0
           /\ (closed /\ out) => \A i \in VarIds \ {VAR_CIRCUIT_BREAKER} : vars'[i] = vars[i]
           /\ ~(closed /\ out) => vars' = vars
           /\ (pre = DefaultVars /\ lastCmd = SetCmd(VAR_VOLTAGE, 200))
                 => vars'[VAR_CIRCUIT_BREAKER] = 0
           /\ (pre = DefaultVars /\ lastCmd = SetCmd(VAR_VOLTAGE, 240))
                 => vars'[VAR_CIRCUIT_BREAKER] = pre[VAR_CIRCUIT_BREAKER]
    ]_vars_all

\* C1 witness: from the default table a whole SetVariable(voltage, 200) has
\* been applied and its interrupt has opened the breaker
C1_Witness ==
    /\ pc = "read"
    /\ pre = DefaultVars
    /\ lastCmd = SetCmd(VAR_VOLTAGE, 200)
    /\ vars[VAR_CIRCUIT_BREAKER] = 0

\* the value the SetVariable commands stored so far leave in variable i: the
\* last one stored to it, or its initial value
Expected(i) == IF i \in DOMAIN lastSet THEN lastSet[i] ELSE DefaultVars[i]

\* C2 as stated: after a sequence of whole SetVariable commands, each with
\* its interrupt, every variable set holds the value last set and every
\* other variable holds its value from before the sequence.
C2_Original ==
    (AtRest /\ fullSets) => \A i \in VarIds : vars[i] = Expected(i)

\* C2 as amended: after any sequence of commands, each with its interrupt,
\* every variable other than circuit_breaker holds the value the last
\* SetVariable stored to it (identifier and value as the argument read
\* returned them), or its initial value if none did; circuit_breaker holds
\* that value or 0.  (lastSet @@ DefaultVars is the table of the Expected(i);
\* the two tables are compared with circuit_breaker masked.)
C2_FrameExceptBreaker ==
    AtRest =>
        /\ [vars EXCEPT ![VAR_CIRCUIT_BREAKER] = 0]
              = [(lastSet @@ DefaultVars) EXCEPT ![VAR_CIRCUIT_BREAKER] = 0]
        /\ vars[VAR_CIRCUIT_BREAKER] \in {Expected(VAR_CIRCUIT_BREAKER), 0}

\* C2 witness: two whole SetVariable commands on the same variable; the
\* first (voltage out of range) tripped the breaker, which no command set,
\* the second overwrote the voltage
C2_Witness ==
    /\ AtRest
    /\ fullSets
    /\ nApplied = 2
    /\ VAR_VOLTAGE \in DOMAIN lastSet
    /\ vars[VAR_VOLTAGE] = 240
    /\ VAR_CIRCUIT_BREAKER \notin DOMAIN lastSet
    /\ vars[VAR_CIRCUIT_BREAKER] = 0

\* C3 as stated: when the stream ends after the SetVariable code byte and
\* fewer than two argument bytes, the session ends with every variable as it
\* was before the code byte was read.
C3_PartialSetNotApplied ==
    (pc = "close" /\ ~misframed /\ lastCmd.code = CMD_SET_VARIABLE /\ lastCmd.nargs < 2)
        => vars = pre

\* C4: every command dispatched other than exit gets exactly one interrupt,
\* which is over before the next command byte is read: outside the interrupt
\* there are as many interrupts as commands, inside it one less.
C4_OneInterruptPerCommand ==
    nApplied = nInterrupts + (IF pc = "interrupt" THEN 1 ELSE 0)

\* C4 witness: an unknown command as the second command of a run, its
\* interrupt done
C4_Witness ==
    /\ pc = "read"
    /\ lastCmd.code = 7
    /\ nApplied = 2
    /\ nInterrupts = 2

\* C5: the step that dispatches exit ends the process with status 0 and the
\* socket path unlinked, runs no interrupt and changes no variable; from
\* then on the server changes nothing: no variable, no byte read, no
\* connection accepted.
C5_ExitTerminates ==
    [][/\ (pc = "dispatch" /\ command = CMD_EXIT /\ pc' # "dispatch")
            => /\ pc' = "exited"
               /\ exitcode' = 0
               /\ ~sockfile'
               /\ nInterrupts' = nInterrupts
               /\ vars' = vars
       /\ (pc = "exited" /\ exitcode = 0)
            => UNCHANGED <<vars, pc, command, cur, exitcode, sockfile, backlog,
                           sstate, buf, nread, nApplied, nInterrupts>>
    ]_vars_all

\* C5 witness: the server has exited on an exit command while a byte of the
\* same connection is unread and another connection waits in the queue
C5_Witness ==
    /\ pc = "exited"
    /\ exitcode = 0
    /\ buf[cur] # <<>>
    /\ backlog # <<>>

\* C6: a nop and its interrupt leave the whole table as it was when the
\* command byte was read, and the cycle is one interrupt with one snapshot.
C6_NopChangesNothing ==
    /\ []((lastCmd.code = CMD_NOP /\ pc \in {"interrupt", "read", "close"}) => vars = pre)
    /\ [][/\ (pc = "dispatch" /\ command = CMD_NOP /\ pc' # "dispatch")
               => pc' = "interrupt" /\ nInterrupts' = nInterrupts /\ nShown' = nShown
          /\ (InterruptStep /\ lastCmd.code = CMD_NOP)
               => /\ pc' = "read"
                  /\ nInterrupts' = nInterrupts + 1
                  /\ nShown' = nShown + 1
       ]_vars_all

\* C6 witness: a nop has been processed after a SetVariable that opened the
\* breaker
C6_Witness ==
    /\ pc = "read"
    /\ lastCmd.code = CMD_NOP
    /\ nInterrupts = 2
    /\ vars[VAR_CIRCUIT_BREAKER] = 0

\* C7: a step takes circuit_breaker from 0 to non-zero only if it is the
\* dispatch of a SetVariable whose identifier is circuit_breaker and whose
\* value is non-zero.
C7_BreakerStaysOpen ==
    [][(vars[VAR_CIRCUIT_BREAKER] = 0 /\ vars'[VAR_CIRCUIT_BREAKER] # 0)
          => /\ pc = "dispatch"
             /\ command = CMD_SET_VARIABLE
             /\ lastCmd'.name = VAR_CIRCUIT_BREAKER
             /\ lastCmd'.val # 0
    ]_vars_all

\* C7 witness: with the breaker open, a whole SetVariable(voltage, 240) and
\* its interrupt are done and the breaker is still open
C7_Witness ==
    /\ pc = "read"
    /\ lastCmd = SetCmd(VAR_VOLTAGE, 240)
    /\ pre[VAR_CIRCUIT_BREAKER] = 0
    /\ vars[VAR_CIRCUIT_BREAKER] = 0

\* C8: at most one connection is accepted and not yet closed; while the
\* server is inside process_client_commands it is on that connection; a
\* connection the server closed was closed by its peer and read to the end;
\* no byte of a connection still in the queue has been read.
C8_OneConnectionAtATime ==
    /\ Cardinality({c \in Clients : sstate[c] = "accepted"}) <= 1
    /\ pc \in {"read", "dispatch", "interrupt", "close"}
          => cur \in Clients /\ sstate[cur] = "accepted"
    /\ \A c \in Clients :
          /\ sstate[c] = "done" => cstate[c] = "closed" /\ buf[c] = <<>>
          /\ sstate[c] \in {"none", "queued"} => nread[c] = 0

\* C8 witness: the second connection is being processed after the first was
\* drained and closed
C8_Witness ==
    /\ sstate[1] = "done"
    /\ nread[1] > 0
    /\ sstate[2] = "accepted"
    /\ nread[2] > 0
    /\ pc = "interrupt"

\* C9 as stated: no byte that the arity table makes an argument of the
\* preceding SetVariable code is dispatched as a command byte.
C9_ArgumentNeverDispatched == ~misframed

\* C10: the dispatch of an unknown code reads no byte, changes no variable
\* and goes to the interrupt; that interrupt changes no variable, is counted
\* once and returns to the read of the next command byte of the connection.
C10_UnknownIsInert ==
    [][/\ (pc = "dispatch" /\ command \notin {CMD_NOP, CMD_EXIT, CMD_SET_VARIABLE}
              /\ pc' # "dispatch")
            => /\ pc' = "interrupt"
               /\ vars' = vars
               /\ buf' = buf
               /\ nread' = nread
               /\ nInterrupts' = nInterrupts
       /\ (InterruptStep /\ lastCmd.code \notin {CMD_NOP, CMD_EXIT, CMD_SET_VARIABLE})
            => /\ pc' = "read"
               /\ vars' = vars
               /\ buf' = buf
               /\ cur' = cur
               /\ nInterrupts' = nInterrupts + 1
    ]_vars_all

\* C10 witness: an unknown command has been processed and the next byte of
\* the connection waits to be read as a command byte
C10_Witness ==
    /\ pc = "read"
    /\ lastCmd.code = 7
    /\ ~misframed
    /\ buf[cur] # <<>>

\* C11: the server process stops only by exit(0) in the dispatch of an exit
\* command or by exit(1) when socket, bind, listen or accept fails; a
\* successful accept, whatever descriptor it returns, is followed by the
\* command read of that connection, the end of a connection's stream (also
\* in the middle of a command) by its close and the next accept, and a
\* dispatched command other than exit by its interrupt.
C11_StopsOnlyByExitOrFailure ==
    /\ []((pc = "exited") <=> (exitcode \in {0, 1}))
    /\ [][/\ (pc # "exited" /\ pc' = "exited")
               => \/ pc = "dispatch" /\ command = CMD_EXIT /\ exitcode' = 0
                  \/ pc = "start" /\ server' = server /\ exitcode' = 1
                  \/ pc = "accept" /\ cur' = cur /\ exitcode' = 1
          /\ (pc = "accept" /\ cur' # cur) => pc' = "read" /\ client' # 0
          /\ (pc = "read" /\ pc' # "read") => pc' \in {"dispatch", "close"}
          /\ (pc = "dispatch" /\ command # CMD_EXIT /\ pc' # "dispatch") => pc' = "interrupt"
          /\ (pc = "interrupt" /\ pc' # "interrupt") => pc' = "read"
          /\ (pc = "close" /\ pc' # "close") => pc' = "accept"
       ]_vars_all

\* C11 witness: the server was started with stdin closed, so that the
\* listening socket is descriptor 0; a first connection ended in a short
\* read of SetVariable and was closed, and the second one is being read
C11_Witness ==
    /\ server = 0
    /\ sstate[1] = "done"
    /\ nread[1] = 1
    /\ nApplied = 1
    /\ sstate[2] = "accepted"
    /\ pc = "read"
    /\ exitcode = -1

\* the interrupt of the current command cycle has printed its snapshot
HasSnapshot == stdout # <<>> /\ stdout[Len(stdout)][1] = "variables:"

\* the listing of that snapshot: a sequence of <<identifier, name, value>>
Snapshot == stdout[Len(stdout)][2]

\* C12: the snapshot printed by an interrupt has one line for each identifier
\* that is reserved (0..5) or whose variable is not 0, and no other line (so
\* none for an unnamed identifier whose variable is 0); the identifiers are
\* strictly ascending, so none is listed twice; each line carries the value
\* the variable has when the interrupt returns.
C12_SnapshotListsNamedOrNonzero ==
    [][InterruptStep =>
        /\ HasSnapshot'
        /\ {Snapshot'[k][1] : k \in 1..Len(Snapshot')}
              = (0..5) \cup {i \in VarIds : vars'[i] # 0}
        /\ \A k \in 1..(Len(Snapshot') - 1) : Snapshot'[k][1] < Snapshot'[k + 1][1]
        /\ \A k \in 1..Len(Snapshot') :
              /\ Snapshot'[k][1] \in VarIds
              /\ Snapshot'[k][3] = vars'[Snapshot'[k][1]]
              /\ (Snapshot'[k][1] >= VAR_LAST) => Snapshot'[k][3] # 0
    ]_vars_all

\* C12 witness: a snapshot that lists the reserved amperage with value 0, the
\* tripped breaker with value 0 and the unnamed variable 6 with value 1
C12_Witness ==
    /\ HasSnapshot
    /\ Len(Snapshot) = 7
    /\ Snapshot[3] = <<VAR_AMPERAGE, "amperage", 0>>
    /\ Snapshot[6] = <<VAR_CIRCUIT_BREAKER, "circuit_breaker", 0>>
    /\ Snapshot[7] = <<6, "var[6]", 1>>

\* the command a server decodes from the bytes b of one command written
\* whole: a code and, for SetVariable, the argument bytes that are there
DecodeWhole(b) ==
    [code  |-> b[1],
     nargs |-> IF b[1] = CMD_SET_VARIABLE THEN Len(b) - 1 ELSE 0,
     name  |-> IF b[1] = CMD_SET_VARIABLE /\ Len(b) >= 2 THEN b[2] ELSE 0,
     val   |-> IF b[1] = CMD_SET_VARIABLE /\ Len(b) >= 3 THEN b[3] ELSE 0]

\* C13: the client program started with a command line that uses command
\* names (nop, exit, set) and variable names (voltage, amperage,
\* min_voltage, max_voltage, circuit_breaker as arguments of set) writes the
\* same bytes as when it is started with the numbers in their place (0, 1, 2
\* and 1..5), and the first command the server decodes from its connection
\* is the one those numbers spell.
C13_NamesEncodeAsNumbers ==
    /\ \A c \in Clients :
          sstate[c] # "none" => sent[c] = client_bytes(Numeric(argv[c]))
    /\ \A c, d \in Clients :
          (sstate[c] # "none" /\ sstate[d] # "none") => sent[c] = sent[d]
    /\ (pc \in {"interrupt", "exited"} /\ cur # None /\ lastCmd # NoCmd
           /\ nread[cur] = 1 + lastCmd.nargs)
          => lastCmd = DecodeWhole(client_bytes(Numeric(argv[cur])))

\* C13 witness: both clients have run, the first started with "set
\* circuit_breaker 0", and the server has decoded SetVariable(5, 0) from it
C13_Witness ==
    /\ argv[1] = <<W_set, W_circuit_breaker, <<"0">>>>
    /\ sstate[2] # "none"
    /\ cur = 1
    /\ pc = "interrupt"
    /\ lastCmd = SetCmd(VAR_CIRCUIT_BREAKER, 0)

\* the last command dispatched is a SetVariable whose argument read returned
\* fewer than two bytes, and the peer has closed with nothing more sent
CutShort ==
    /\ cur # None
    /\ lastCmd.code = CMD_SET_VARIABLE
    /\ lastCmd.nargs < 2
    /\ cstate[cur] = "closed"
    /\ buf[cur] = <<>>

\* C14: a SetVariable whose argument bytes are cut short by the peer closing
\* is applied with the missing bytes taken as 0: with no argument byte it
\* stores vars[0] = 0, with one argument byte b it stores vars[b] = 0, every
\* other variable as it was when the command byte was read; its interrupt
\* runs once, and the next read of a command byte ends the session with no
\* further change.
C14_ShortSetZeroFilled ==
    /\ []((CutShort /\ pc \in {"interrupt", "read", "close"}) =>
            /\ lastCmd.nargs = 0 => lastCmd.name = 0
            /\ lastCmd.val = 0
            /\ pc = "interrupt" => vars = [pre EXCEPT ![lastCmd.name] = 0]
            /\ pc \in {"read", "close"} =>
                  /\ vars = trip_breaker_based_on_voltage([pre EXCEPT ![lastCmd.name] = 0])
                  /\ nInterrupts = nApplied
                  /\ HasSnapshot)
    /\ [][/\ (CutShort /\ pc = "interrupt" /\ pc' # "interrupt")
               => pc' = "read" /\ nInterrupts' = nInterrupts + 1
          /\ (CutShort /\ pc = "read" /\ pc' # "read")
               => /\ pc' = "close"
                  /\ UNCHANGED <<vars, nread, nApplied, nInterrupts, stdout>>
       ]_vars_all

\* C14 witness: the stream ended after the bytes 2, 1; SetVariable(1, 0) was
\* applied, the interrupt tripped the breaker and the session has ended
C14_Witness ==
    /\ pc = "close"
    /\ ~misframed
    /\ nread[cur] = 2
    /\ lastCmd = [code |-> CMD_SET_VARIABLE, nargs |-> 1, name |-> VAR_VOLTAGE, val |-> 0]
    /\ pre = DefaultVars
    /\ vars = [DefaultVars EXCEPT ![VAR_VOLTAGE] = 0, ![VAR_CIRCUIT_BREAKER] = 0]

\* C15: initially and whenever the server waits for a command byte or for a
\* connection (or is about to close one), a closed breaker implies
\* min_voltage <= voltage <= max_voltage, whatever commands were processed.
C15_ClosedImpliesInRange ==
    pc \in {"start", "accept", "read", "close"} =>
        (vars[VAR_CIRCUIT_BREAKER] # 0 =>
            /\ vars[VAR_MIN_VOLTAGE] <= vars[VAR_VOLTAGE]
            /\ vars[VAR_VOLTAGE] <= vars[VAR_MAX_VOLTAGE])

\* C15 witness: with the voltage below the range and the breaker open, a
\* whole SetVariable(circuit_breaker, 1) was applied and its interrupt has
\* opened the breaker again
C15_Witness ==
    /\ pc = "read"
    /\ lastCmd = SetCmd(VAR_CIRCUIT_BREAKER, 1)
    /\ pre[VAR_CIRCUIT_BREAKER] = 0
    /\ pre[VAR_VOLTAGE] = 200
    /\ vars[VAR_CIRCUIT_BREAKER] = 0
    /\ HasSnapshot

\* the lines of the three kinds of event
IsCommandLine(l) == l[1] \in {"command: nop", "command: exit", "command: set variable",
                              "unknown command"}
IsTrippedLine(l) == l[1] = "*** PROTECTED: circuit breaker tripped"
IsSnapshotLine(l) == l[1] = "variables:"

\* the table after the dispatch of the last command: as it was when the
\* command byte was read, but for the store of a SetVariable
AfterDispatch ==
    IF lastCmd.code = CMD_SET_VARIABLE
    THEN [pre EXCEPT ![lastCmd.name] = lastCmd.val]
    ELSE pre

\* C16: the output of a command cycle is the command line (at which point
\* the store of a SetVariable is done), then "server interrupt", then the
\* tripped line exactly if the policy trips, then the snapshot, which is the
\* last line and shows the table after the policy; a tripped line means that
\* the breaker was not 0 before the interrupt and that the snapshot of the
\* cycle shows circuit_breaker = 0.
C16_CommandThenTripThenSnapshot ==
    /\ pc = "interrupt" =>
          /\ Len(stdout) = 1
          /\ IsCommandLine(stdout[1])
          /\ vars = AfterDispatch
    /\ (pc \in {"read", "close"} /\ stdout # <<>>) =>
          /\ Len(stdout) \in {3, 4}
          /\ IsCommandLine(stdout[1])
          /\ stdout[2] = <<"server interrupt">>
          /\ Len(stdout) = 4 => IsTrippedLine(stdout[3])
          /\ IsSnapshotLine(stdout[Len(stdout)])
          /\ \E k \in 1..Len(Snapshot) :
                Snapshot[k][1] = VAR_CIRCUIT_BREAKER
                /\ Snapshot[k][3] = trip_breaker_based_on_voltage(AfterDispatch)[VAR_CIRCUIT_BREAKER]
          /\ Len(stdout) = 4 <=> trip(AfterDispatch)
          /\ Len(stdout) = 4 =>
                /\ AfterDispatch[VAR_CIRCUIT_BREAKER] # 0
                /\ \E k \in 1..Len(Snapshot) :
                      Snapshot[k][1] = VAR_CIRCUIT_BREAKER /\ Snapshot[k][3] = 0

\* C16 witness: a cycle with all three events: SetVariable(voltage, 250) on
\* the default table, the tripped line, and the snapshot
C16_Witness ==
    /\ pc = "read"
    /\ pre = DefaultVars
    /\ Len(stdout) = 4
    /\ stdout[1] = <<"command: set variable", VAR_VOLTAGE, 250>>
    /\ IsTrippedLine(stdout[3])
    /\ Snapshot[6] = <<VAR_CIRCUIT_BREAKER, "circuit_breaker", 0>>

\* C17: the table starts at the defaults (voltage 240, min_voltage 235,
\* max_voltage 245, circuit_breaker 1, every other variable 0) and stays
\* there until the first command is dispatched; the end of a session, the
\* close of its connection and the accept of the next one change no
\* variable, so that the first command of a connection finds every variable
\* as the commands of the earlier connections left it.
C17_TableNeverReset ==
    /\ [](nApplied = 0 => vars = DefaultVars)
    /\ []((pc = "dispatch" /\ nread[cur] = 1) =>
            /\ vars = pre
            /\ \A i \in VarIds \ {VAR_CIRCUIT_BREAKER} : vars[i] = Expected(i)
            /\ vars[VAR_CIRCUIT_BREAKER] \in {Expected(VAR_CIRCUIT_BREAKER), 0})
    /\ [][/\ pc \in {"start", "accept", "close"} => vars' = vars
          /\ (pc = "read" /\ pc' \in {"read", "close"}) => vars' = vars
       ]_vars_all

\* C17 witness: the first command byte of the second connection has been
\* read, with the voltage and the breaker as the first connection left them
C17_Witness ==
    /\ sstate[1] = "done"
    /\ cur = 2
    /\ pc = "dispatch"
    /\ nread[2] = 1
    /\ vars[VAR_VOLTAGE] = 200
    /\ vars[VAR_CIRCUIT_BREAKER] = 0

\* C18: unless the server process exits (on an exit command or a failed
\* call), and given that every connected client closes at some time, every
\* connection that waits in the queue or is being processed is closed by
\* the server at some time, with the server back at accept: also after
\* sessions that ended in the middle of a command.
C18_EveryConnectionServed ==
    \A c \in Clients :
        (sstate[c] \in {"queued", "accepted"})
            ~> ((sstate[c] = "done" /\ pc = "accept") \/ pc = "exited")

\* C18 witness: the first session ended in the middle of a SetVariable (one
\* argument byte, then the peer closed), the command was applied, and the
\* second connection, which was waiting, has been accepted and closed
C18_Witness ==
    /\ sstate[1] = "done"
    /\ nread[1] = 2
    /\ nApplied = 1
    /\ nInterrupts = 1
    /\ lastSet # <<>>
    /\ sstate[2] = "done"
    /\ pc = "accept"

\* C19: when a session has ended (the read of a command byte found the end
\* of the stream), the state is the one the last command cycle of the
\* session left, or the one at the accept if the connection sent nothing:
\* the end of the stream changes no variable, runs no interrupt and prints
\* no snapshot.  In every session the interrupts run and the snapshots
\* printed are as many as the command bytes decoded other than exit.
C19_CloseIsSilent ==
    /\ pc = "close" =>
          IF nread[cur] = 0
          THEN /\ vars = pre
               /\ stdout = <<>>
               /\ <<nApplied, nInterrupts, nShown>> = atAccept
          ELSE /\ vars = trip_breaker_based_on_voltage(AfterDispatch)
               /\ Len(stdout) \in {3, 4}
               /\ Cardinality({k \in 1..Len(stdout) : IsSnapshotLine(stdout[k])}) = 1
    /\ pc \in {"read", "close", "exited"} =>
          /\ nInterrupts - atAccept[2] = nApplied - atAccept[1]
          /\ nShown - atAccept[3] = nApplied - atAccept[1]

\* C19 witness: after a first session with one command, the second
\* connection was closed by its peer with nothing sent and its session has
\* ended
C19_Witness ==
    /\ sstate[1] = "done"
    /\ cur = 2
    /\ pc = "close"
    /\ nread[2] = 0
    /\ nApplied = 1
    /\ vars[VAR_CIRCUIT_BREAKER] = 0

====
